---- MODULE Spec2Model ----
(***************************************************************************)
(* brickroll: a translator from the eight-instruction tape language to     *)
(* Rickroll-lang text (src/src/compiler.rs).                               *)
(*                                                                         *)
(* Compiler::read lowers a source string to a flat command list (cmds);    *)
(* Compiler::output renders the list to text, counting the nesting level.  *)
(* The second half of the module executes the emitted commands, so that    *)
(* statements about what the translated program does can be checked.       *)
(***************************************************************************)
EXTENDS Integers, Sequences, FiniteSets, TLC

(***************************************************************************)
(* Bounds of the model.                                                    *)
(***************************************************************************)
\* longest source string that is lowered and rendered
MaxLen == 3
\* widest indent passed to output
MaxIndent == 1

(***************************************************************************)
(* The data model: enum Var, Literal, Expr, Function, Cmd.                 *)
(* A char is its Unicode scalar value, a u8 a number in 0..255.            *)
(***************************************************************************)
Var == {"Zero", "Pointer", "Tape", "Temp", "Buffer"}

Literal_Char(c) == [lit |-> "Char", c |-> c]
Literal_Int(i) == [lit |-> "Int", i |-> i]
Literal_EmptyArray == [lit |-> "EmptyArray"]

Expr_Inc(v) == [expr |-> "Inc", v |-> v]
Expr_Dec(v) == [expr |-> "Dec", v |-> v]
Expr_ArrayAccess(a, idx) == [expr |-> "ArrayAccess", a |-> a, idx |-> idx]
Expr_IsEqualLiteral(v, l) == [expr |-> "IsEqualLiteral", v |-> v, l |-> l]
Expr_IsEqualVar(v, v2) == [expr |-> "IsEqualVar", v |-> v, v2 |-> v2]
Expr_IsNotEqualLiteral(v, l) == [expr |-> "IsNotEqualLiteral", v |-> v, l |-> l]
Expr_Literal(l) == [expr |-> "Literal", l |-> l]

Function_ArrayReplace(a, b, c) == [fn |-> "ArrayReplace", args |-> <<a, b, c>>]
Function_ArrayPush(a, b, c) == [fn |-> "ArrayPush", args |-> <<a, b, c>>]
Function_ArrayPop(a, b) == [fn |-> "ArrayPop", args |-> <<a, b>>]
Function_ArrayLength(v) == [fn |-> "ArrayLength", args |-> <<v>>]
Function_CharToInt(v) == [fn |-> "CharToInt", args |-> <<v>>]
Function_IntToChar(v) == [fn |-> "IntToChar", args |-> <<v>>]
Function_PutChar(v) == [fn |-> "PutChar", args |-> <<v>>]
Function_ReadLine == [fn |-> "ReadLine", args |-> <<>>]

Cmd_DeclareVar(v) == [cmd |-> "DeclareVar", v |-> v]
Cmd_DeclareFn(f) == [cmd |-> "DeclareFn", f |-> f]
Cmd_Return(e) == [cmd |-> "Return", e |-> e]
Cmd_DeclareChorus == [cmd |-> "DeclareChorus"]
Cmd_Assign(v, e) == [cmd |-> "Assign", v |-> v, e |-> e]
Cmd_Call(f, v) == [cmd |-> "Call", f |-> f, v |-> v]
Cmd_CallNoReturn(f) == [cmd |-> "CallNoReturn", f |-> f]
Cmd_StartCond(e) == [cmd |-> "StartCond", e |-> e]
Cmd_EndIf == [cmd |-> "EndIf"]
Cmd_EndWhile == [cmd |-> "EndWhile"]

(***************************************************************************)
(* The characters of the lookup tables: iter::once('\n').chain(' '..='~'). *)
(***************************************************************************)
Newline == 10
Space == 32
Tilde == 126
Dollar == 36
U8Mod == 256

\* the iterator once('\n').chain(' '..='~') as a sequence of scalar values
TableChars == <<Newline>> \o [k \in 1..(Tilde - Space + 1) |-> Space + k - 1]
\* the iterator once(b'\n').chain(b' '..=b'~') as a sequence of bytes
TableBytes == <<Newline>> \o [k \in 1..(Tilde - Space + 1) |-> Space + k - 1]

\* `c as u8`: the low eight bits of the scalar value
CharAsU8(c) == c % U8Mod
\* `i as char`: the scalar value of a byte
U8AsChar(i) == i

RECURSIVE Flatten(_)
\* concatenation of a sequence of sequences (the pushes of a for loop)
Flatten(ss) == IF ss = <<>> THEN <<>> ELSE Head(ss) \o Flatten(Tail(ss))

(***************************************************************************)
(* The lowering helpers of impl Compiler.  Each maps the command list to   *)
(* the command list after its pushes.                                      *)
(***************************************************************************)
define_char_to_int(cs) ==
    cs \o <<Cmd_DeclareFn(Function_CharToInt("Temp"))>>
       \o Flatten([k \in 1..Len(TableChars) |->
                    <<Cmd_StartCond(Expr_IsEqualLiteral("Temp", Literal_Char(TableChars[k]))),
                      Cmd_Return(Expr_Literal(Literal_Int(CharAsU8(TableChars[k])))),
                      Cmd_EndIf>>])
       \o <<Cmd_Return(Expr_Literal(Literal_Int(0)))>>

\* define_int_to_char with the fallback of define_char_to_int copied into it
define_int_to_char_fallback_int(cs) ==
    cs \o <<Cmd_DeclareFn(Function_IntToChar("Temp"))>>
       \o Flatten([k \in 1..Len(TableBytes) |->
                    <<Cmd_StartCond(Expr_IsEqualLiteral("Temp", Literal_Int(TableBytes[k]))),
                      Cmd_Return(Expr_Literal(Literal_Char(U8AsChar(TableBytes[k])))),
                      Cmd_EndIf>>])
       \o <<Cmd_Return(Expr_Literal(Literal_Int(0)))>>

\* define_int_to_char with the half-open range b' '..b'~'
define_int_to_char_half_open(cs) ==
    cs \o <<Cmd_DeclareFn(Function_IntToChar("Temp"))>>
       \o Flatten([k \in 1..(Len(TableBytes) - 1) |->
                    <<Cmd_StartCond(Expr_IsEqualLiteral("Temp", Literal_Int(TableBytes[k]))),
                      Cmd_Return(Expr_Literal(Literal_Char(U8AsChar(TableBytes[k])))),
                      Cmd_EndIf>>])
       \o <<Cmd_Return(Expr_Literal(Literal_Char(Dollar)))>>

define_int_to_char(cs) ==
    cs \o <<Cmd_DeclareFn(Function_IntToChar("Temp"))>>
       \o Flatten([k \in 1..Len(TableBytes) |->
                    <<Cmd_StartCond(Expr_IsEqualLiteral("Temp", Literal_Int(TableBytes[k]))),
                      Cmd_Return(Expr_Literal(Literal_Char(U8AsChar(TableBytes[k])))),
                      Cmd_EndIf>>])
       \o <<Cmd_Return(Expr_Literal(Literal_Char(Dollar)))>>

declare_chorus(cs) == cs \o <<Cmd_DeclareChorus>>

\* init_vars without the push of the first cell
init_vars_no_push(cs) ==
    cs \o << Cmd_DeclareVar("Zero"),
             Cmd_DeclareVar("Tape"),
             Cmd_DeclareVar("Temp"),
             Cmd_DeclareVar("Buffer"),
             Cmd_DeclareVar("Pointer"),
             Cmd_Assign("Zero", Expr_Literal(Literal_Int(0))),
             Cmd_Assign("Tape", Expr_Literal(Literal_EmptyArray)),
             Cmd_Assign("Temp", Expr_Literal(Literal_Int(0))),
             Cmd_Assign("Buffer", Expr_Literal(Literal_EmptyArray)),
             Cmd_Assign("Pointer", Expr_Literal(Literal_Int(0))) >>

init_vars(cs) ==
    cs \o << Cmd_DeclareVar("Zero"),
             Cmd_DeclareVar("Tape"),
             Cmd_DeclareVar("Temp"),
             Cmd_DeclareVar("Buffer"),
             Cmd_DeclareVar("Pointer"),
             Cmd_Assign("Zero", Expr_Literal(Literal_Int(0))),
             Cmd_Assign("Tape", Expr_Literal(Literal_EmptyArray)),
             Cmd_Call(Function_ArrayPush("Tape", "Zero", "Zero"), "Tape"),
             Cmd_Assign("Temp", Expr_Literal(Literal_Int(0))),
             Cmd_Assign("Buffer", Expr_Literal(Literal_EmptyArray)),
             Cmd_Assign("Pointer", Expr_Literal(Literal_Int(0))) >>

\* inc_pointer without the end-if of its conditional
inc_pointer_no_end_if(cs) ==
    cs \o << Cmd_Assign("Pointer", Expr_Inc("Pointer")),
             Cmd_Call(Function_ArrayLength("Tape"), "Temp"),
             Cmd_StartCond(Expr_IsEqualVar("Pointer", "Temp")),
             Cmd_Call(Function_ArrayPush("Tape", "Temp", "Zero"), "Tape") >>

\* inc_pointer that never extends the tape
inc_pointer_no_grow(cs) ==
    cs \o << Cmd_Assign("Pointer", Expr_Inc("Pointer")) >>

inc_pointer(cs) ==
    cs \o << Cmd_Assign("Pointer", Expr_Inc("Pointer")),
             Cmd_Call(Function_ArrayLength("Tape"), "Temp"),
             Cmd_StartCond(Expr_IsEqualVar("Pointer", "Temp")),
             Cmd_Call(Function_ArrayPush("Tape", "Temp", "Zero"), "Tape"),
             Cmd_EndIf >>

dec_pointer(cs) == cs \o << Cmd_Assign("Pointer", Expr_Dec("Pointer")) >>

inc_data(cs) ==
    cs \o << Cmd_Assign("Temp", Expr_ArrayAccess("Tape", "Pointer")),
             Cmd_Assign("Temp", Expr_Inc("Temp")),
             Cmd_Call(Function_ArrayReplace("Tape", "Pointer", "Temp"), "Tape") >>

\* dec_data as a copy of inc_data
dec_data_increments(cs) ==
    cs \o << Cmd_Assign("Temp", Expr_ArrayAccess("Tape", "Pointer")),
             Cmd_Assign("Temp", Expr_Inc("Temp")),
             Cmd_Call(Function_ArrayReplace("Tape", "Pointer", "Temp"), "Tape") >>

dec_data(cs) ==
    cs \o << Cmd_Assign("Temp", Expr_ArrayAccess("Tape", "Pointer")),
             Cmd_Assign("Temp", Expr_Dec("Temp")),
             Cmd_Call(Function_ArrayReplace("Tape", "Pointer", "Temp"), "Tape") >>

output_byte(cs) ==
    cs \o << Cmd_Assign("Temp", Expr_ArrayAccess("Tape", "Pointer")),
             Cmd_Call(Function_IntToChar("Temp"), "Temp"),
             Cmd_CallNoReturn(Function_PutChar("Temp")) >>

read_byte(cs) ==
    cs \o << Cmd_Call(Function_ArrayLength("Buffer"), "Temp"),
             Cmd_StartCond(Expr_IsEqualLiteral("Temp", Literal_Int(0))),
             Cmd_Call(Function_ReadLine, "Buffer"),
             Cmd_EndIf,
             Cmd_Assign("Temp", Expr_ArrayAccess("Buffer", "Zero")),
             Cmd_Call(Function_ArrayPop("Buffer", "Zero"), "Buffer"),
             Cmd_Call(Function_CharToInt("Temp"), "Temp"),
             Cmd_Call(Function_ArrayReplace("Tape", "Pointer", "Temp"), "Tape") >>

cond_jump(cs) ==
    cs \o << Cmd_Assign("Temp", Expr_ArrayAccess("Tape", "Pointer")),
             Cmd_StartCond(Expr_IsNotEqualLiteral("Temp", Literal_Int(0))) >>

\* cond_jump_end closing the block with an end-if
cond_jump_end_as_end_if(cs) == cs \o << Cmd_EndIf >>

cond_jump_end(cs) == cs \o << Cmd_EndWhile >>

\* the characters a source string is drawn from: the eight instructions and
\* "#", which stands for every character the match sends to `_ => {}`
SourceChars == {">", "<", "+", "-", ".", ",", "[", "]", "#"}

\* one turn of `for c in program.chars() { match c { ... } }`
read_char(cs, c) ==
    CASE c = ">" -> inc_pointer(cs)
      [] c = "<" -> dec_pointer(cs)
      [] c = "+" -> inc_data(cs)
      [] c = "-" -> dec_data(cs)
      [] c = "." -> output_byte(cs)
      [] c = "," -> read_byte(cs)
      [] c = "[" -> cond_jump(cs)
      [] c = "]" -> cond_jump_end(cs)
      [] OTHER -> cs

(***************************************************************************)
(* Rendering: the Display impls and Function::name / Function::args.       *)
(* Text is kept as the pieces that each write! appends.                    *)
(***************************************************************************)
\* the characters ' ' ..= '~' as text, indexed by scalar value - Space + 1
\* (the grave accent, which a TLA+ string cannot hold, is written U+0060)
Printable ==
    << " ", "!", "\"", "#", "$", "%", "&", "'", "(", ")", "*", "+", ",", "-", ".", "/",
       "0", "1", "2", "3", "4", "5", "6", "7", "8", "9", ":", ";", "<", "=", ">", "?",
       "@", "A", "B", "C", "D", "E", "F", "G", "H", "I", "J", "K", "L", "M", "N", "O",
       "P", "Q", "R", "S", "T", "U", "V", "W", "X", "Y", "Z", "[", "\\", "]", "^", "_",
       "U+0060", "a", "b", "c", "d", "e", "f", "g", "h", "i", "j", "k", "l", "m", "n", "o",
       "p", "q", "r", "s", "t", "u", "v", "w", "x", "y", "z", "{", "|", "}", "~" >>

Quote == 39
Backslash == 92

\* write!(f, "{}", c) for a char
CharText(c) ==
    IF c >= Space /\ c <= Tilde THEN Printable[c - Space + 1]
    ELSE "U+" \o ToString(c)

Display_Var(v) == v

Display_Literal(l) ==
    CASE l.lit = "Int" -> ToString(l.i)
      [] l.lit = "Char" ->
            IF l.c = Newline THEN "'\\n'"
            ELSE IF l.c = Quote THEN "'\\''"
            ELSE IF l.c = Backslash THEN "'\\\\'"
            ELSE "'" \o CharText(l.c) \o "'"
      [] l.lit = "EmptyArray" -> "ARRAY"

Display_Expr(e) ==
    CASE e.expr = "Inc" -> Display_Var(e.v) \o " + 1"
      [] e.expr = "Dec" -> Display_Var(e.v) \o " - 1"
      [] e.expr = "ArrayAccess" -> Display_Var(e.a) \o " : " \o Display_Var(e.idx)
      [] e.expr = "IsEqualLiteral" -> Display_Var(e.v) \o " == " \o Display_Literal(e.l)
      [] e.expr = "IsNotEqualLiteral" -> Display_Var(e.v) \o " != " \o Display_Literal(e.l)
      [] e.expr = "IsEqualVar" -> Display_Var(e.v) \o " == " \o Display_Var(e.v2)
      [] e.expr = "Literal" -> Display_Literal(e.l)

Function_name(f) == f.fn

Function_args(f) ==
    CASE Len(f.args) = 3 ->
            Display_Var(f.args[1]) \o ", " \o Display_Var(f.args[2]) \o ", " \o Display_Var(f.args[3])
      [] Len(f.args) = 2 -> Display_Var(f.args[1]) \o ", " \o Display_Var(f.args[2])
      [] Len(f.args) = 1 -> Display_Var(f.args[1])
      [] OTHER -> "you"

(***************************************************************************)
(* Compiler::output.  res is the text so far: a sequence of lines, each    *)
(* the sequence of pieces written to it (one " " per indentation write,    *)
(* then the literal parts and the arguments of the template).  origin is   *)
(* not in the code: it records, for each line, the index of the command    *)
(* whose turn of the loop wrote it.                                        *)
(***************************************************************************)
\* `for _ in 0..n { write!(res, " ") }`: nothing when n <= 0
Pad(n) == [k \in 1..n |-> " "]

\* the locals of output before the loop
output_start ==
    [res |-> <<>>, origin |-> <<>>, level |-> 0, in_chorus |-> FALSE,
     ln |-> 0, err |-> FALSE]

\* the line(s) the second `match cmd` writes after the indentation pad
output_template(cmd, pad) ==
    CASE cmd.cmd = "DeclareVar" ->
            << pad \o <<"Never gonna let ", Display_Var(cmd.v), " down">> >>
      [] cmd.cmd = "DeclareFn" ->
            << pad \o <<"[Verse ", Function_name(cmd.f), "]">>,
               <<"(Ooh give you ", Function_args(cmd.f), ")">> >>
      [] cmd.cmd = "Return" ->
            << pad \o <<"(Ooh) Never gonna give, never gonna give (give you ",
                        Display_Expr(cmd.e), ")">> >>
      [] cmd.cmd = "DeclareChorus" -> << pad \o <<"[Chorus]">> >>
      [] cmd.cmd = "Assign" ->
            << pad \o <<"Never gonna give ", Display_Var(cmd.v), " ", Display_Expr(cmd.e)>> >>
      [] cmd.cmd = "Call" ->
            << pad \o <<"(Ooh give you ", Display_Var(cmd.v), ") ",
                        "Never gonna run ", Function_name(cmd.f), " and desert ",
                        Function_args(cmd.f)>> >>
      [] cmd.cmd = "CallNoReturn" ->
            << pad \o <<"Never gonna run ", Function_name(cmd.f), " and desert ",
                        Function_args(cmd.f)>> >>
      [] cmd.cmd = "StartCond" ->
            << pad \o <<"Inside we both know ", Display_Expr(cmd.e)>> >>
      [] cmd.cmd = "EndIf" ->
            << pad \o <<"Your heart's been aching but you're too shy to say it">> >>
      [] cmd.cmd = "EndWhile" ->
            << pad \o <<"We know the game and we're gonna play it">> >>

\* the level the lines of cmd are indented to: decremented first by a close
output_level(level, cmd) ==
    IF cmd.cmd \in {"EndIf", "EndWhile"} THEN level - 1 ELSE level

\* the trace line of a command, written when trace && in_chorus
output_trace(st, cmd, indent, trace) ==
    IF trace /\ st.in_chorus
    THEN << Pad(output_level(st.level, cmd) * indent) \o <<"Never gonna say ", ToString(st.ln)>> >>
    ELSE <<>>

\* output_cmd with one indentation loop only: in trace mode the pad goes to
\* the trace line and the line of the command starts at column 0
output_cmd_one_pad(st, cmd, indent, trace) ==
    IF cmd.cmd \in {"EndIf", "EndWhile"} /\ st.level = 0
    THEN [st EXCEPT !.err = TRUE]
    ELSE LET level1 == output_level(st.level, cmd)
             tr == output_trace(st, cmd, indent, trace)
             lines == tr \o output_template(cmd, IF tr = <<>> THEN Pad(level1 * indent) ELSE <<>>)
         IN  [res |-> st.res \o lines,
              origin |-> st.origin \o [k \in 1..Len(lines) |-> st.ln],
              level |-> IF cmd.cmd = "StartCond" THEN level1 + 1 ELSE level1,
              in_chorus |-> st.in_chorus \/ cmd.cmd = "DeclareChorus",
              ln |-> st.ln + 1,
              err |-> FALSE]

\* output_cmd that indents before it decrements: a block-close line is
\* written one level too deep
output_cmd_pad_first(st, cmd, indent, trace) ==
    IF cmd.cmd \in {"EndIf", "EndWhile"} /\ st.level = 0
    THEN [st EXCEPT !.err = TRUE]
    ELSE LET level1 == output_level(st.level, cmd)
             lines == output_trace(st, cmd, indent, trace)
                        \o output_template(cmd, Pad(st.level * indent))
         IN  [res |-> st.res \o lines,
              origin |-> st.origin \o [k \in 1..Len(lines) |-> st.ln],
              level |-> IF cmd.cmd = "StartCond" THEN level1 + 1 ELSE level1,
              in_chorus |-> st.in_chorus \/ cmd.cmd = "DeclareChorus",
              ln |-> st.ln + 1,
              err |-> FALSE]

\* one turn of `for (ln, cmd) in self.cmds.iter().enumerate()`
output_cmd(st, cmd, indent, trace) ==
    IF cmd.cmd \in {"EndIf", "EndWhile"} /\ st.level = 0
    THEN [st EXCEPT !.err = TRUE]
    ELSE LET level1 == output_level(st.level, cmd)
             lines == output_trace(st, cmd, indent, trace)
                        \o output_template(cmd, Pad(level1 * indent))
         IN  [res |-> st.res \o lines,
              origin |-> st.origin \o [k \in 1..Len(lines) |-> st.ln],
              level |-> IF cmd.cmd = "StartCond" THEN level1 + 1 ELSE level1,
              in_chorus |-> st.in_chorus \/ cmd.cmd = "DeclareChorus",
              ln |-> st.ln + 1,
              err |-> FALSE]

RECURSIVE output_range(_, _, _, _, _, _)
\* the turns of the loop for the commands cs[lo..hi], in order, from locals
\* st on (the range is halved to keep the evaluation shallow); a turn after
\* the early return does nothing
output_range(cs, st, lo, hi, indent, trace) ==
    IF st.err \/ lo > hi THEN st
    ELSE IF lo = hi THEN output_cmd(st, cs[lo], indent, trace)
    ELSE LET mid == (lo + hi) \div 2
         IN  output_range(cs, output_range(cs, st, lo, mid, indent, trace),
                          mid + 1, hi, indent, trace)

\* what read pushes before it looks at the source
Preamble == init_vars(declare_chorus(define_int_to_char(define_char_to_int(<<>>))))

\* the locals of output after the turns for the commands of Preamble, which
\* every list that read returns starts with
PreambleWalk ==
    [w \in 0..MaxIndent, t \in BOOLEAN |->
        output_range(Preamble, output_start, 1, Len(Preamble), w, t)]

\* the whole loop of output (the turns for a leading Preamble are looked up
\* in PreambleWalk, not evaluated again)
output_walk(cs, indent, trace) ==
    IF /\ indent \in 0..MaxIndent
       /\ Len(cs) >= Len(Preamble)
       /\ SubSeq(cs, 1, Len(Preamble)) = Preamble
    THEN output_range(cs, PreambleWalk[indent, trace], Len(Preamble) + 1, Len(cs),
                      indent, trace)
    ELSE output_range(cs, output_start, 1, Len(cs), indent, trace)

Ok(text) == [ok |-> TRUE, text |-> text]
Err_UnbalancedBrackets == [ok |-> FALSE, err |-> "UnbalancedBrackets"]

\* output without the check of the level after the loop
output_no_final_check(cs, indent, trace) ==
    LET st == output_walk(cs, indent, trace)
    IN  IF st.err THEN Err_UnbalancedBrackets ELSE Ok(st.res)

\* pub fn output(&self, indent: i64, trace: bool) -> Result<String, CompilerError>
output(cs, indent, trace) ==
    LET st == output_walk(cs, indent, trace)
    IN  IF st.err THEN Err_UnbalancedBrackets
        ELSE IF st.level = 0 THEN Ok(st.res)
        ELSE Err_UnbalancedBrackets

(***************************************************************************)
(* Where the parts of a command list lie.                                  *)
(***************************************************************************)
\* the index of the header of routine fname in cs (0 when there is none)
HeaderAt(cs, fname) ==
    IF \E i \in 1..Len(cs) : cs[i].cmd = "DeclareFn" /\ cs[i].f.fn = fname
    THEN CHOOSE i \in 1..Len(cs) : cs[i].cmd = "DeclareFn" /\ cs[i].f.fn = fname
    ELSE 0

\* the index of the declare-main-block marker in cs (0 when there is none)
ChorusAt(cs) ==
    IF \E i \in 1..Len(cs) : cs[i].cmd = "DeclareChorus"
    THEN CHOOSE i \in 1..Len(cs) : cs[i].cmd = "DeclareChorus"
    ELSE 0

\* the last command of the routine whose header is at h: the one before the
\* next header or the main-block marker, or the last of the list
RoutineEnd(cs, h) ==
    LET marks == {i \in (h + 1)..Len(cs) : cs[i].cmd \in {"DeclareFn", "DeclareChorus"}}
    IN  IF marks = {} THEN Len(cs)
        ELSE (CHOOSE i \in marks : \A j \in marks : i <= j) - 1

\* the commands of routine fname after its header
RoutineBody(cs, fname) ==
    SubSeq(cs, HeaderAt(cs, fname) + 1, RoutineEnd(cs, HeaderAt(cs, fname)))

(***************************************************************************)
(* The nesting depth of the commands of a list, counted from the list      *)
(* alone: the depth of a command is the number of start-conditionals       *)
(* before it less the number of end-ifs and end-whiles up to and including *)
(* it.                                                                     *)
(***************************************************************************)
IsOpen(cmd) == cmd.cmd = "StartCond"
IsClose(cmd) == cmd.cmd \in {"EndIf", "EndWhile"}

RECURSIVE DepthsFrom(_, _, _, _)
\* [line: the depths of cs[lo..hi], after: the opens less the closes up to
\*  hi], given `before`, the opens less the closes up to lo - 1
DepthsFrom(cs, lo, hi, before) ==
    IF lo > hi THEN [line |-> <<>>, after |-> before]
    ELSE IF lo = hi
    THEN LET d == IF IsClose(cs[lo]) THEN before - 1 ELSE before
         IN  [line |-> <<d>>, after |-> IF IsOpen(cs[lo]) THEN d + 1 ELSE d]
    ELSE LET mid == (lo + hi) \div 2
             left == DepthsFrom(cs, lo, mid, before)
             right == DepthsFrom(cs, mid + 1, hi, left.after)
         IN  [line |-> left.line \o right.line, after |-> right.after]

\* the depths of the commands of Preamble
PreambleDepths == DepthsFrom(Preamble, 1, Len(Preamble), 0)

\* the depth of every command of cs (those of a leading Preamble are looked
\* up in PreambleDepths, not counted again)
Depths(cs) ==
    IF Len(cs) >= Len(Preamble) /\ SubSeq(cs, 1, Len(Preamble)) = Preamble
    THEN PreambleDepths.line
            \o DepthsFrom(cs, Len(Preamble) + 1, Len(cs), PreambleDepths.after).line
    ELSE DepthsFrom(cs, 1, Len(cs), 0).line

(***************************************************************************)
(* The translator as a state machine: read pushes the preamble, then one   *)
(* lowering per character of the source, and output renders the list.      *)
(***************************************************************************)
VARIABLES
    pc,        \* where the translation stands
    program,   \* the characters of the source read so far
    cmds,      \* Compiler.cmds
    indent_arg,    \* the indent argument of the output call
    trace_arg,     \* the trace argument of the output call
    result,    \* what output returned
    ip,        \* the emitted program at run time: index of the next command
    env,       \* the emitted program at run time: the value of each Var
    out,       \* the emitted program at run time: the characters put out
    underflow  \* the run has moved Pointer left of index 0

vars == <<pc, program, cmds, indent_arg, trace_arg, result, ip, env, out, underflow>>

\* what the translator sets
compile_vars == <<pc, program, cmds, indent_arg, trace_arg, result>>
\* what a run of the emitted program sets
run_vars == <<ip, env, out, underflow>>

NoResult == [ok |-> FALSE, err |-> "none"]

\* run-time values: an integer, a character, an array, or nothing yet
V_Int(n) == [t |-> "int", n |-> n]
V_Char(c) == [t |-> "char", c |-> c]
V_Array(elems) == [t |-> "array", elems |-> elems]
V_Undef == [t |-> "undef"]

\* no variable of the emitted program is declared yet
NotStarted ==
    /\ ip = 0
    /\ env = [x \in Var |-> V_Undef]
    /\ out = <<>>
    /\ underflow = FALSE

Init ==
    /\ pc = "define_char_to_int"
    /\ program = <<>>
    /\ cmds = <<>>
    /\ indent_arg = 0
    /\ trace_arg = FALSE
    /\ result = NoResult
    /\ NotStarted

DefineCharToInt ==
    /\ pc = "define_char_to_int"
    /\ cmds' = define_char_to_int(cmds)
    /\ pc' = "define_int_to_char"
    /\ UNCHANGED <<program, indent_arg, trace_arg, result>>
    /\ UNCHANGED run_vars

DefineIntToChar ==
    /\ pc = "define_int_to_char"
    /\ cmds' = define_int_to_char(cmds)
    /\ pc' = "declare_chorus"
    /\ UNCHANGED <<program, indent_arg, trace_arg, result>>
    /\ UNCHANGED run_vars

DeclareChorus ==
    /\ pc = "declare_chorus"
    /\ cmds' = declare_chorus(cmds)
    /\ pc' = "init_vars"
    /\ UNCHANGED <<program, indent_arg, trace_arg, result>>
    /\ UNCHANGED run_vars

InitVars ==
    /\ pc = "init_vars"
    /\ cmds' = init_vars(cmds)
    /\ pc' = "chars"
    /\ UNCHANGED <<program, indent_arg, trace_arg, result>>
    /\ UNCHANGED run_vars

\* the loop over program.chars() takes the next character c
ReadChar(c) ==
    /\ pc = "chars"
    /\ Len(program) < MaxLen
    /\ program' = Append(program, c)
    /\ cmds' = read_char(cmds, c)
    /\ UNCHANGED <<pc, indent_arg, trace_arg, result>>
    /\ UNCHANGED run_vars

\* the source is exhausted: read returns the compiler
ReadReturn ==
    /\ pc = "chars"
    /\ pc' = "compiled"
    /\ UNCHANGED <<program, cmds, indent_arg, trace_arg, result>>
    /\ UNCHANGED run_vars

\* compiler.output(w, t)
Output(w, t) ==
    /\ pc = "compiled"
    /\ indent_arg' = w
    /\ trace_arg' = t
    /\ result' = output(cmds, w, t)
    /\ pc' = "rendered"
    /\ UNCHANGED <<program, cmds>>
    /\ UNCHANGED run_vars

Next ==
    \/ DefineCharToInt
    \/ DefineIntToChar
    \/ DeclareChorus
    \/ InitVars
    \/ \E c \in SourceChars : ReadChar(c)
    \/ ReadReturn
    \/ \E w \in 0..MaxIndent, t \in BOOLEAN : Output(w, t)

Spec == Init /\ [][Next]_vars

(***************************************************************************)
(* Vocabulary of the properties.                                           *)
(***************************************************************************)
\* read has returned (or is in its loop over the characters)
Lowered == pc \in {"chars", "compiled", "rendered"}

\* the number of characters ch among the first k characters of src
Count(src, ch, k) == Cardinality({i \in 1..k : src[i] = ch})

\* every prefix has at least as many "[" as "]", and the totals are equal
Balanced(src) ==
    /\ \A k \in 0..Len(src) : Count(src, "[", k) >= Count(src, "]", k)
    /\ Count(src, "[", Len(src)) = Count(src, "]", Len(src))

\* some prefix holds more "]" than "["
UnmatchedClose(src) ==
    \E k \in 1..Len(src) : Count(src, "]", k) > Count(src, "[", k)

\* more "[" than "]" in total
UnmatchedOpen(src) == Count(src, "[", Len(src)) > Count(src, "]", Len(src))

(***************************************************************************)
(* The emitted program at run time.  The list is executed from its         *)
(* main-block marker on, one command per step, with the meaning the        *)
(* command vocabulary has: assign and call on the five variables, a        *)
(* start-conditional that enters its block when its test holds and skips   *)
(* to behind the matching close otherwise, an end-if that falls through    *)
(* and an end-while that goes back to the test of its block.  A call of    *)
(* CharToInt or IntToChar runs the routine the list defines.               *)
(*                                                                         *)
(* What the translator leaves to the runtime is a choice here: an          *)
(* increment or decrement keeps the exact integer or wraps to a byte, and  *)
(* an access outside an array stops the run or falls on some element.      *)
(* Moving the pointer left of index 0 is outside what the translation      *)
(* defines: a run that does it is flagged and not followed further.        *)
(*                                                                         *)
(* The two routines ahead of the main-block marker are the same in every   *)
(* list and are only ever entered by a call, so the state of a run keeps   *)
(* the list from the marker on and looks a called routine up in Preamble.  *)
(***************************************************************************)
\* longest source string that is executed
MaxRunLen == 4
\* longest tape (and longest array) of a run
MaxTape == 3
\* largest magnitude of an integer of a run
MaxCell == 3
\* longest line read-line returns
MaxLine == 1
\* most characters a run puts out
MaxOut == 1

\* the characters an executed source is drawn from; "#" lowers to nothing
RunChars == SourceChars \ {"#"}

RECURSIVE read_from(_, _)
\* the loop of read over the characters of src, from the list cs on
read_from(cs, src) ==
    IF src = <<>> THEN cs ELSE read_from(read_char(cs, Head(src)), Tail(src))

\* pub fn read(program: &str) -> Compiler
read(src) == read_from(Preamble, src)

\* input characters: one of the table ('a') and one outside it
LowerA == 97
EAcute == 233
InputChars == {LowerA, EAcute}
InputLines == UNION {[1..n -> {V_Char(c) : c \in InputChars}] : n \in 0..MaxLine}

\* the integer an increment or decrement can leave: exact, or wrapped
ArithResults(n) == {n, n % U8Mod}

\* the values a bounded run may hold
WithinBounds(val) ==
    CASE val.t = "int" -> val.n \in (-MaxCell..MaxCell) \cup {U8Mod - 1, LowerA}
      [] val.t = "array" -> Len(val.elems) <= MaxTape
      [] OTHER -> TRUE

\* the outcome of an access that stops the run
Crash == [t |-> "crash"]

LitValue(l) ==
    CASE l.lit = "Int" -> V_Int(l.i)
      [] l.lit = "Char" -> V_Char(l.c)
      [] l.lit = "EmptyArray" -> V_Array(<<>>)

\* idx is an index of arr (indices count from 0)
InRange(arr, idx) ==
    /\ arr.t = "array"
    /\ idx.t = "int"
    /\ idx.n >= 0
    /\ idx.n < Len(arr.elems)

\* the values an expression can yield in environment en
EvalExpr(e, en) ==
    CASE e.expr = "Inc" ->
            IF en[e.v].t = "int"
            THEN {V_Int(r) : r \in ArithResults(en[e.v].n + 1)}
            ELSE {Crash}
      [] e.expr = "Dec" ->
            IF en[e.v].t = "int"
            THEN {V_Int(r) : r \in ArithResults(en[e.v].n - 1)}
            ELSE {Crash}
      [] e.expr = "ArrayAccess" ->
            IF InRange(en[e.a], en[e.idx])
            THEN {en[e.a].elems[en[e.idx].n + 1]}
            ELSE {Crash} \cup (IF en[e.a].t = "array"
                               THEN {en[e.a].elems[k] : k \in 1..Len(en[e.a].elems)}
                               ELSE {})
      [] e.expr = "Literal" -> {LitValue(e.l)}
      [] OTHER -> {Crash}

\* the test of a start-conditional in environment en
CondHolds(e, en) ==
    CASE e.expr = "IsEqualLiteral" -> en[e.v] = LitValue(e.l)
      [] e.expr = "IsNotEqualLiteral" -> en[e.v] # LitValue(e.l)
      [] e.expr = "IsEqualVar" -> en[e.v] = en[e.v2]
      [] OTHER -> FALSE

\* the bodies of the two routines of the list
Routines == [fname \in {"CharToInt", "IntToChar"} |-> RoutineBody(Preamble, fname)]

\* the part of the list a run walks: from the main-block marker on
MainBlock(cs) == SubSeq(cs, ChorusAt(cs), Len(cs))

\* what the routine fname of the list returns for arg: the return of the
\* first conditional whose literal equals arg, or else the final return
RunRoutine(fname, arg) ==
    LET body == Routines[fname]
        hits == {k \in 1..(Len(body) \div 3) : LitValue(body[3 * k - 2].e.l) = arg}
    IN  IF hits = {} THEN LitValue(body[Len(body)].e.l)
        ELSE LitValue(body[3 * (CHOOSE k \in hits : \A k2 \in hits : k <= k2) - 1].e.l)

\* the values a library call can yield in environment en
CallResult(f, en) ==
    CASE f.fn = "ArrayReplace" ->
            LET arr == en[f.args[1]]
                idx == en[f.args[2]]
                x == en[f.args[3]]
            IN  IF InRange(arr, idx)
                THEN {V_Array([arr.elems EXCEPT ![idx.n + 1] = x])}
                ELSE {Crash} \cup (IF arr.t = "array"
                                   THEN {V_Array([arr.elems EXCEPT ![k] = x]) : k \in 1..Len(arr.elems)}
                                   ELSE {})
      [] f.fn = "ArrayPush" ->
            LET arr == en[f.args[1]]
                idx == en[f.args[2]]
                x == en[f.args[3]]
            IN  IF arr.t = "array" /\ idx.t = "int" /\ idx.n >= 0 /\ idx.n <= Len(arr.elems)
                THEN {V_Array(SubSeq(arr.elems, 1, idx.n) \o <<x>>
                                \o SubSeq(arr.elems, idx.n + 1, Len(arr.elems)))}
                ELSE {Crash}
      [] f.fn = "ArrayPop" ->
            LET arr == en[f.args[1]]
                idx == en[f.args[2]]
            IN  IF InRange(arr, idx)
                THEN {V_Array(SubSeq(arr.elems, 1, idx.n) \o SubSeq(arr.elems, idx.n + 2, Len(arr.elems)))}
                ELSE {Crash}
      [] f.fn = "ArrayLength" ->
            IF en[f.args[1]].t = "array" THEN {V_Int(Len(en[f.args[1]].elems))} ELSE {Crash}
      [] f.fn \in {"CharToInt", "IntToChar"} -> {RunRoutine(f.fn, en[f.args[1]])}
      [] f.fn = "ReadLine" -> {V_Array(line) : line \in InputLines}
      [] OTHER -> {Crash}

\* the close that matches the start-conditional at index i: the first close
\* behind it at its depth
MatchEnd(cs, i) ==
    LET d == Depths(cs)
        ends == {j \in (i + 1)..Len(cs) : IsClose(cs[j]) /\ d[j] = d[i]}
    IN  CHOOSE j \in ends : \A j2 \in ends : j <= j2

\* the start-conditional that the close at index j matches: the last one
\* before it at its depth
MatchStart(cs, j) ==
    LET d == Depths(cs)
        starts == {i \in 1..(j - 1) : IsOpen(cs[i]) /\ d[i] = d[j]}
    IN  CHOOSE i \in starts : \A i2 \in starts : i >= i2

\* the sources that are executed: those output renders
RunPrograms ==
    {src \in UNION {[1..n -> RunChars] : n \in 0..MaxRunLen} : Balanced(src)}

InitRun ==
    /\ program \in RunPrograms
    /\ \E list \in {read(program)} : cmds = MainBlock(list)
    /\ pc = "run"
    /\ indent_arg = 0
    /\ trace_arg = FALSE
    /\ result = NoResult
    /\ ip = 1
    /\ env = [x \in Var |-> V_Undef]
    /\ out = <<>>
    /\ underflow = FALSE

\* the command about to be executed is of kind k
At(k) ==
    /\ pc = "run"
    /\ ~underflow
    /\ ip \in 1..Len(cmds)
    /\ cmds[ip].cmd = k

ExecDeclareChorus ==
    /\ At("DeclareChorus")
    /\ ip' = ip + 1
    /\ UNCHANGED <<env, out, underflow>>
    /\ UNCHANGED compile_vars

ExecDeclareVar ==
    /\ At("DeclareVar")
    /\ env' = [env EXCEPT ![cmds[ip].v] = V_Undef]
    /\ ip' = ip + 1
    /\ UNCHANGED <<out, underflow>>
    /\ UNCHANGED compile_vars

ExecAssign ==
    /\ At("Assign")
    /\ \E val \in EvalExpr(cmds[ip].e, env) \ {Crash} :
          /\ WithinBounds(val)
          /\ env' = [env EXCEPT ![cmds[ip].v] = val]
    /\ underflow' = (underflow \/ (/\ cmds[ip].v = "Pointer"
                                    /\ cmds[ip].e.expr = "Dec"
                                    /\ env["Pointer"].n <= 0))
    /\ ip' = ip + 1
    /\ UNCHANGED out
    /\ UNCHANGED compile_vars

ExecCall ==
    /\ At("Call")
    /\ \E val \in CallResult(cmds[ip].f, env) \ {Crash} :
          /\ WithinBounds(val)
          /\ env' = [env EXCEPT ![cmds[ip].v] = val]
    /\ ip' = ip + 1
    /\ UNCHANGED <<out, underflow>>
    /\ UNCHANGED compile_vars

\* the only call without result that read emits is PutChar
ExecCallNoReturn ==
    /\ At("CallNoReturn")
    /\ cmds[ip].f.fn = "PutChar"
    /\ Len(out) < MaxOut
    /\ out' = Append(out, env[cmds[ip].f.args[1]])
    /\ ip' = ip + 1
    /\ UNCHANGED <<env, underflow>>
    /\ UNCHANGED compile_vars

\* the test holds: the block is entered
ExecStartCondEnter ==
    /\ At("StartCond")
    /\ CondHolds(cmds[ip].e, env)
    /\ ip' = ip + 1
    /\ UNCHANGED <<env, out, underflow>>
    /\ UNCHANGED compile_vars

\* the test fails: the run goes on behind the matching close
ExecStartCondSkip ==
    /\ At("StartCond")
    /\ ~CondHolds(cmds[ip].e, env)
    /\ ip' = MatchEnd(cmds, ip) + 1
    /\ UNCHANGED <<env, out, underflow>>
    /\ UNCHANGED compile_vars

ExecEndIf ==
    /\ At("EndIf")
    /\ ip' = ip + 1
    /\ UNCHANGED <<env, out, underflow>>
    /\ UNCHANGED compile_vars

\* the end of a loop: back to the test of its block
ExecEndWhile ==
    /\ At("EndWhile")
    /\ ip' = MatchStart(cmds, ip)
    /\ UNCHANGED <<env, out, underflow>>
    /\ UNCHANGED compile_vars

\* an access outside an array stops the run
ExecCrash ==
    /\ \/ At("Assign") /\ Crash \in EvalExpr(cmds[ip].e, env)
       \/ At("Call") /\ Crash \in CallResult(cmds[ip].f, env)
    /\ pc' = "crashed"
    /\ UNCHANGED <<program, cmds, indent_arg, trace_arg, result>>
    /\ UNCHANGED run_vars

\* the run falls off the end of the list
ExecEnd ==
    /\ pc = "run"
    /\ ~underflow
    /\ ip = Len(cmds) + 1
    /\ pc' = "halted"
    /\ UNCHANGED <<program, cmds, indent_arg, trace_arg, result>>
    /\ UNCHANGED run_vars

NextRun ==
    \/ ExecDeclareChorus
    \/ ExecDeclareVar
    \/ ExecAssign
    \/ ExecCall
    \/ ExecCallNoReturn
    \/ ExecStartCondEnter
    \/ ExecStartCondSkip
    \/ ExecEndIf
    \/ ExecEndWhile
    \/ ExecCrash
    \/ ExecEnd

SpecRun == InitRun /\ [][NextRun]_vars

(***************************************************************************)
(* C2.  For every source whose brackets are balanced, output returns Ok,   *)
(* for every indent >= 0 and both values of trace.                         *)
(***************************************************************************)
C2_BalancedRendersOk ==
    (pc = "rendered" /\ Balanced(program)) => result.ok

\* a loop around a pointer move was rendered, indented and traced
C2_Witness ==
    /\ pc = "rendered"
    /\ program = <<"[", ">", "]">>
    /\ indent_arg > 0
    /\ trace_arg
    /\ result.ok

(***************************************************************************)
(* C3.  For every source with an unmatched "]" or an unmatched "[",        *)
(* output returns Err(UnbalancedBrackets) whatever indent and trace are;   *)
(* the source "]" alone fails at its end-while command, at level 0.        *)
(***************************************************************************)
C3_UnbalancedFails ==
    /\ (pc = "rendered" /\ (UnmatchedClose(program) \/ UnmatchedOpen(program)))
          => result = Err_UnbalancedBrackets
    /\ (pc = "rendered" /\ program = <<"]">>)
          => LET st == output_walk(cmds, indent_arg, trace_arg)
             IN  /\ st.err
                 /\ st.level = 0
                 /\ cmds[st.ln + 1] = Cmd_EndWhile
                 /\ st.ln + 1 = Len(cmds)

\* the lone close was rendered
C3_Witness ==
    /\ pc = "rendered"
    /\ program = <<"]">>
    /\ result = Err_UnbalancedBrackets

(***************************************************************************)
(* C4.  After the preamble and the variable initialisation, the list is    *)
(* the concatenation, in source order, of the fixed sequence of each       *)
(* recognised character (">": 5 commands, "<": 1, "+": 3, "-": 3, ".": 3,  *)
(* ",": 8, "[": 2, "]": 1, with the operands of the lowering table); any   *)
(* other character adds nothing, and nothing is reordered or removed.      *)
(***************************************************************************)
\* the lowering table, row by row
C4_Row(ch) ==
    CASE ch = ">" ->
            << Cmd_Assign("Pointer", Expr_Inc("Pointer")),
               Cmd_Call(Function_ArrayLength("Tape"), "Temp"),
               Cmd_StartCond(Expr_IsEqualVar("Pointer", "Temp")),
               Cmd_Call(Function_ArrayPush("Tape", "Temp", "Zero"), "Tape"),
               Cmd_EndIf >>
      [] ch = "<" -> << Cmd_Assign("Pointer", Expr_Dec("Pointer")) >>
      [] ch \in {"+", "-"} ->
            << Cmd_Assign("Temp", Expr_ArrayAccess("Tape", "Pointer")),
               Cmd_Assign("Temp", IF ch = "+" THEN Expr_Inc("Temp") ELSE Expr_Dec("Temp")),
               Cmd_Call(Function_ArrayReplace("Tape", "Pointer", "Temp"), "Tape") >>
      [] ch = "." ->
            << Cmd_Assign("Temp", Expr_ArrayAccess("Tape", "Pointer")),
               Cmd_Call(Function_IntToChar("Temp"), "Temp"),
               Cmd_CallNoReturn(Function_PutChar("Temp")) >>
      [] ch = "," ->
            << Cmd_Call(Function_ArrayLength("Buffer"), "Temp"),
               Cmd_StartCond(Expr_IsEqualLiteral("Temp", Literal_Int(0))),
               Cmd_Call(Function_ReadLine, "Buffer"),
               Cmd_EndIf,
               Cmd_Assign("Temp", Expr_ArrayAccess("Buffer", "Zero")),
               Cmd_Call(Function_ArrayPop("Buffer", "Zero"), "Buffer"),
               Cmd_Call(Function_CharToInt("Temp"), "Temp"),
               Cmd_Call(Function_ArrayReplace("Tape", "Pointer", "Temp"), "Tape") >>
      [] ch = "[" ->
            << Cmd_Assign("Temp", Expr_ArrayAccess("Tape", "Pointer")),
               Cmd_StartCond(Expr_IsNotEqualLiteral("Temp", Literal_Int(0))) >>
      [] ch = "]" -> << Cmd_EndWhile >>
      [] OTHER -> << >>

\* the number of commands of each row
C4_RowLen ==
    [ch \in SourceChars |->
        CASE ch = ">" -> 5
          [] ch = "<" -> 1
          [] ch \in {"+", "-", "."} -> 3
          [] ch = "," -> 8
          [] ch = "[" -> 2
          [] ch = "]" -> 1
          [] OTHER -> 0]

\* the number of commands before the translation of the source: two routines
\* (a header, three commands per table entry, a final return), the main-block
\* marker, five declarations and six initialisations
C4_PreambleLen == 2 * (1 + 3 * (1 + (Tilde - Space + 1)) + 1) + 1 + 5 + 6

C4_BodyIsConcatenation ==
    Lowered =>
        /\ Len(cmds) >= C4_PreambleLen
        /\ SubSeq(cmds, C4_PreambleLen + 1, Len(cmds))
              = Flatten([k \in 1..Len(program) |-> C4_Row(program[k])])
        /\ \A k \in 1..Len(program) : Len(C4_Row(program[k])) = C4_RowLen[program[k]]

\* a read, a skipped character and a loop close were lowered, in that order
C4_Witness ==
    /\ pc = "compiled"
    /\ program = <<",", "#", "]">>
    /\ Len(cmds) = C4_PreambleLen + 9

(***************************************************************************)
(* Vocabulary of the preamble: where its parts lie in the list.            *)
(***************************************************************************)
\* the entries of a lookup table: newline and ' ' ..= '~'
TableSize == 1 + (Tilde - Space + 1)
\* the commands of one routine: header, three per entry, final return
RoutineLen == 1 + 3 * TableSize + 1

\* the variable initialisation, as the commands of init_vars after the five
\* declarations
C5_Initialisation ==
    << Cmd_Assign("Zero", Expr_Literal(Literal_Int(0))),
       Cmd_Assign("Tape", Expr_Literal(Literal_EmptyArray)),
       Cmd_Call(Function_ArrayPush("Tape", "Zero", "Zero"), "Tape"),
       Cmd_Assign("Temp", Expr_Literal(Literal_Int(0))),
       Cmd_Assign("Buffer", Expr_Literal(Literal_EmptyArray)),
       Cmd_Assign("Pointer", Expr_Literal(Literal_Int(0))) >>

C5_Declarations ==
    << Cmd_DeclareVar("Zero"), Cmd_DeclareVar("Tape"), Cmd_DeclareVar("Temp"),
       Cmd_DeclareVar("Buffer"), Cmd_DeclareVar("Pointer") >>

\* the part of the order that does not depend on which routine comes first:
\* both routines, then the main-block marker, then the declarations and the
\* initialisation, and nothing lowered from the source before the end of them
C5_Rest(first, second) ==
    /\ Len(cmds) >= 2 * RoutineLen + 12
    /\ cmds[1] = Cmd_DeclareFn(first)
    /\ cmds[RoutineLen + 1] = Cmd_DeclareFn(second)
    /\ cmds[2 * RoutineLen + 1] = Cmd_DeclareChorus
    /\ \A i \in 2..(2 * RoutineLen) :
          i # RoutineLen + 1 => cmds[i].cmd \in {"StartCond", "Return", "EndIf"}
    /\ SubSeq(cmds, 2 * RoutineLen + 2, 2 * RoutineLen + 6) = C5_Declarations
    /\ SubSeq(cmds, 2 * RoutineLen + 7, 2 * RoutineLen + 12) = C5_Initialisation

(***************************************************************************)
(* C5, as claimed.  The list starts with the byte-to-char routine, then    *)
(* the char-to-byte routine, then the main-block marker, then the variable *)
(* initialisation; nothing lowered from the source precedes any of these.  *)
(***************************************************************************)
C5_Original ==
    Lowered => C5_Rest(Function_IntToChar("Temp"), Function_CharToInt("Temp"))

(***************************************************************************)
(* C5, amended.  The list starts with the char-to-byte routine (CharToInt),*)
(* then the byte-to-char routine (IntToChar), then the main-block marker,  *)
(* then the declarations of Zero, Tape, Temp, Buffer, Pointer and the      *)
(* variable initialisation (Zero := 0, Tape := empty then one push of a    *)
(* zero element, Temp := 0, Buffer := empty, Pointer := 0); nothing        *)
(* lowered from the source precedes any of these.                          *)
(***************************************************************************)
C5_PreambleOrder ==
    Lowered => C5_Rest(Function_CharToInt("Temp"), Function_IntToChar("Temp"))

\* a source was lowered behind the preamble
C5_Witness ==
    /\ pc = "compiled"
    /\ program = <<"+", "[", "-">>
    /\ Len(cmds) > 2 * RoutineLen + 12

(***************************************************************************)
(* The lookup routines as emitted: the final return of a routine and the   *)
(* entries of its table, read back from the list.                          *)
(***************************************************************************)
\* both routines are in the list and nothing of the source has been lowered
PreambleOnly ==
    /\ pc \notin {"define_char_to_int", "define_int_to_char"}
    /\ program = <<>>

\* the level of the command at index i of a routine body: the opens before
\* it less the closes before it
BodyLevel(body, i) ==
    Cardinality({j \in 1..(i - 1) : body[j].cmd = "StartCond"})
      - Cardinality({j \in 1..(i - 1) : body[j].cmd \in {"EndIf", "EndWhile"}})

\* the final unconditional return: the last command, outside every block
FinalReturn(body) == body[Len(body)]

\* entry k of the table of a routine: the literal its conditional tests and
\* the literal it returns
Entry(body, k) ==
    [test |-> body[3 * k - 2].e.l, ret |-> body[3 * k - 1].e.l]

\* the body is entries followed by one return
WellFormedTable(body) ==
    /\ Len(body) % 3 = 1
    /\ \A k \in 1..(Len(body) \div 3) :
          /\ body[3 * k - 2].cmd = "StartCond"
          /\ body[3 * k - 2].e.expr = "IsEqualLiteral"
          /\ body[3 * k - 2].e.v = "Temp"
          /\ body[3 * k - 1].cmd = "Return"
          /\ body[3 * k - 1].e.expr = "Literal"
          /\ body[3 * k].cmd = "EndIf"
    /\ body[Len(body)].cmd = "Return"
    /\ body[Len(body)].e.expr = "Literal"

(***************************************************************************)
(* C6, as claimed.  The final unconditional return of the byte-to-char     *)
(* routine returns the byte literal 0, and the final unconditional return  *)
(* of the char-to-byte routine returns the character literal '$'.          *)
(***************************************************************************)
C6_Original ==
    PreambleOnly =>
        /\ FinalReturn(RoutineBody(cmds, "IntToChar")) = Cmd_Return(Expr_Literal(Literal_Int(0)))
        /\ FinalReturn(RoutineBody(cmds, "CharToInt")) = Cmd_Return(Expr_Literal(Literal_Char(Dollar)))

(***************************************************************************)
(* C6, amended.  The final unconditional return of the char-to-byte        *)
(* routine (CharToInt) returns the byte literal 0, and the final           *)
(* unconditional return of the byte-to-char routine (IntToChar) returns    *)
(* the character literal '$'.                                              *)
(***************************************************************************)
C6_Fallbacks ==
    PreambleOnly =>
        LET c2b == RoutineBody(cmds, "CharToInt")
            b2c == RoutineBody(cmds, "IntToChar")
        IN  /\ FinalReturn(c2b) = Cmd_Return(Expr_Literal(Literal_Int(0)))
            /\ BodyLevel(c2b, Len(c2b)) = 0
            /\ FinalReturn(b2c) = Cmd_Return(Expr_Literal(Literal_Char(Dollar)))
            /\ BodyLevel(b2c, Len(b2c)) = 0

\* both routines and the main-block marker have been pushed
C6_Witness ==
    /\ pc = "init_vars"
    /\ HeaderAt(cmds, "CharToInt") > 0
    /\ HeaderAt(cmds, "IntToChar") > 0
    /\ ChorusAt(cmds) > 0

(***************************************************************************)
(* C7.  The two routines are inverses on the table domain: there are 96    *)
(* entries, newline first and then 0x20..0x7E ascending; for every such    *)
(* character c the char-to-byte routine has exactly one conditional that   *)
(* tests c, returning its byte b, and the byte-to-char routine has exactly *)
(* one conditional that tests b, returning c; the two tables list their    *)
(* entries in the same order.                                              *)
(***************************************************************************)
C7_TablesInverse ==
    PreambleOnly =>
        LET c2b == RoutineBody(cmds, "CharToInt")
            b2c == RoutineBody(cmds, "IntToChar")
            n == Len(c2b) \div 3
            domain == {Newline} \cup (Space..Tilde)
        IN  /\ WellFormedTable(c2b)
            /\ WellFormedTable(b2c)
            /\ n = 96
            /\ Len(b2c) \div 3 = n
            \* newline first, then ascending
            /\ Entry(c2b, 1).test = Literal_Char(Newline)
            /\ \A k \in 2..n : Entry(c2b, k).test = Literal_Char(Space + k - 2)
            /\ Entry(c2b, n).test = Literal_Char(Tilde)
            \* character to byte, and the same entry of the other table back
            /\ \A k \in 1..n :
                  /\ Entry(c2b, k).test.lit = "Char"
                  /\ Entry(c2b, k).ret = Literal_Int(Entry(c2b, k).test.c)
                  /\ Entry(b2c, k).test = Entry(c2b, k).ret
                  /\ Entry(b2c, k).ret = Entry(c2b, k).test
            \* exactly one conditional for each character and each byte
            /\ \A c \in domain :
                  /\ Cardinality({k \in 1..n : Entry(c2b, k).test = Literal_Char(c)}) = 1
                  /\ Cardinality({k \in 1..n : Entry(b2c, k).test = Literal_Int(c)}) = 1

\* the tables are in the list, with an entry for '~'
C7_Witness ==
    /\ pc = "chars"
    /\ program = <<>>
    /\ \E i \in 1..Len(cmds) :
          cmds[i] = Cmd_StartCond(Expr_IsEqualLiteral("Temp", Literal_Char(Tilde)))
    /\ \E i \in 1..Len(cmds) :
          cmds[i] = Cmd_StartCond(Expr_IsEqualLiteral("Temp", Literal_Int(Tilde)))

(***************************************************************************)
(* Vocabulary of rendered text.                                            *)
(***************************************************************************)
\* the number of spaces a line begins with: its leading " " pieces (no
\* template begins with a space)
LeadingSpaces(line) ==
    IF \A k \in 1..Len(line) : line[k] = " " THEN Len(line)
    ELSE (CHOOSE k \in 1..Len(line) :
            /\ line[k] # " "
            /\ \A j \in 1..(k - 1) : line[j] = " ") - 1

\* the line begins with exactly n spaces
BeginsWithSpaces(line, n) ==
    /\ n >= 0
    /\ Len(line) > n
    /\ \A j \in 1..n : line[j] = " "
    /\ line[n + 1] # " "

\* a trace line: `Never gonna say <index>` behind its indentation
IsTraceLine(line) ==
    /\ Len(line) > LeadingSpaces(line)
    /\ line[LeadingSpaces(line) + 1] = "Never gonna say "

NotTraceLine(line) == ~IsTraceLine(line)

\* the text without its trace lines
StripTrace(text) == SelectSeq(text, NotTraceLine)

(***************************************************************************)
(* C8.  For every list read produces and every indent width w >= 0,        *)
(* output(w, true) without its trace lines is line for line output(w,      *)
(* false), and output(w, true) fails exactly when output(w, false) fails.  *)
(***************************************************************************)
C8_TraceOnlyAddsLines ==
    (pc = "rendered" /\ trace_arg) =>
        LET plain == output(cmds, indent_arg, FALSE)
        IN  /\ result.ok = plain.ok
            /\ result.ok => StripTrace(result.text) = plain.text

\* a traced rendering of a loop holds trace lines, indented inside the loop
C8_Witness ==
    /\ pc = "rendered"
    /\ trace_arg
    /\ indent_arg > 0
    /\ program = <<"[", "-", "]">>
    /\ result.ok
    /\ \E k \in 1..Len(result.text) :
          IsTraceLine(result.text[k]) /\ LeadingSpaces(result.text[k]) > 0

(***************************************************************************)
(* C9.  Every line output emits (both lines of a routine header, trace     *)
(* lines and block-close lines included) begins with exactly depth * w     *)
(* spaces, depth being the nesting depth at the command that wrote it:     *)
(* before the increment for a block-open line, after the decrement for an  *)
(* end-if or end-while line.                                               *)
(***************************************************************************)
C9_IndentIsDepth ==
    pc = "rendered" =>
        LET st == output_walk(cmds, indent_arg, trace_arg)
            depth == Depths(cmds)
        IN  /\ Len(st.origin) = Len(st.res)
            /\ \A k \in 1..Len(st.res) :
                  BeginsWithSpaces(st.res[k], depth[st.origin[k] + 1] * indent_arg)

\* a block-close line and a line inside a block were written at depth 1 and
\* 2 of a loop, with a positive indent
C9_Witness ==
    /\ pc = "rendered"
    /\ program = <<"[", ">", "]">>
    /\ indent_arg = 1
    /\ result.ok
    /\ \E k \in 1..Len(result.text) : LeadingSpaces(result.text[k]) = 2
    /\ \E k \in 1..Len(result.text) :
          /\ LeadingSpaces(result.text[k]) = 1
          /\ result.text[k][2] = "Your heart's been aching but you're too shy to say it"

(***************************************************************************)
(* Vocabulary of the run-time properties.                                  *)
(***************************************************************************)
\* the tape and the pointer of the emitted program
Tape == env["Tape"]
Pointer == env["Pointer"]

\* the cell under the pointer
CurrentCell == Tape.elems[Pointer.n + 1]

\* the index, in the list of a run, of the first command lowered from the
\* source: the one behind the main-block marker, the declarations and the
\* initialisation
BodyStart == Len(MainBlock(Preamble)) + 1

\* the number of commands one character lowers to
GroupLen(c) == Len(read_char(<<>>, c))

RECURSIVE GroupsLen(_)
\* the number of commands a source lowers to
GroupsLen(src) == IF src = <<>> THEN 0 ELSE GroupLen(Head(src)) + GroupsLen(Tail(src))

\* the indices between two source instructions: where the commands of an
\* instruction start, and the index behind the last
Boundaries(src) == {BodyStart + GroupsLen(SubSeq(src, 1, k)) : k \in 0..Len(src)}

\* the test that cond_jump emits for "["
LoopTest == Cmd_StartCond(Expr_IsNotEqualLiteral("Temp", Literal_Int(0)))

\* the test and the push that inc_pointer emits for ">"
GrowTest == Cmd_StartCond(Expr_IsEqualVar("Pointer", "Temp"))
GrowPush == Cmd_Call(Function_ArrayPush("Tape", "Temp", "Zero"), "Tape")

(***************************************************************************)
(* C1.  Whenever a run stands at the test of a loop, on entry or back from *)
(* the end of the block, with the pointer on the tape, the test holds      *)
(* exactly when the current cell Tape[Pointer] is non-zero: the body runs  *)
(* again exactly when the cell is non-zero and the loop is left exactly    *)
(* when it is zero.                                                        *)
(***************************************************************************)
C1_LoopTestsCurrentCell ==
    (/\ At("StartCond")
     /\ cmds[ip] = LoopTest
     /\ InRange(Tape, Pointer))
    => (CondHolds(cmds[ip].e, env) <=> CurrentCell # V_Int(0))

(***************************************************************************)
(* C10.  In a run that has not moved the pointer left of index 0: the tape *)
(* is one zero cell and the pointer 0 when the first source instruction    *)
(* starts; between two source instructions 0 <= Pointer < length(Tape);    *)
(* the block of ">" is entered exactly when the incremented Pointer equals *)
(* the length of the tape, its push appends one zero cell, and no other    *)
(* command lowered from the source changes the length of the tape.         *)
(***************************************************************************)
C10_Start ==
    (pc \in {"run", "halted"} /\ ip = BodyStart)
    => (Tape = V_Array(<<V_Int(0)>>) /\ Pointer = V_Int(0))

C10_PointerOnTape ==
    (pc \in {"run", "halted"} /\ ~underflow /\ ip \in Boundaries(program))
    => InRange(Tape, Pointer)

C10_Step ==
    (pc = "run" /\ ~underflow /\ ip >= BodyStart /\ ip <= Len(cmds) /\ pc' = "run")
    => /\ cmds[ip] = GrowTest => (ip' = ip + 1 <=> Pointer.n = Len(Tape.elems))
       /\ IF cmds[ip] = GrowPush
          THEN /\ Pointer.n = Len(Tape.elems)
               /\ env'["Tape"] = V_Array(Append(Tape.elems, V_Int(0)))
          ELSE Len(env'["Tape"].elems) = Len(Tape.elems)

C10_TapeGrowsOnlyAtTheEnd ==
    /\ [](C10_Start /\ C10_PointerOnTape)
    /\ [][C10_Step]_vars

\* the run of "><>" has ended: the first ">" has appended a cell, the second
\* has not
C10_Witness ==
    /\ pc = "halted"
    /\ program = <<">", "<", ">">>
    /\ Tape = V_Array(<<V_Int(0), V_Int(0)>>)
    /\ Pointer = V_Int(1)

(***************************************************************************)
(* Vocabulary of the pairing of blocks.  A close closes the last           *)
(* start-conditional before it that is still open, which is all the        *)
(* renderer's count of the depth knows of a block.                         *)
(***************************************************************************)
\* a test emitted for an if: by a table entry, by ">" or by ","
IfStyle(cmd) ==
    /\ cmd.cmd = "StartCond"
    /\ cmd.e.expr \in {"IsEqualLiteral", "IsEqualVar"}

\* where the two routines and the main block start in Preamble
CharToIntAt == HeaderAt(Preamble, "CharToInt")
IntToCharAt == HeaderAt(Preamble, "IntToChar")
MainBlockAt == ChorusAt(Preamble)

\* the lowering step that pushed the command at index idx of Preamble: the
\* k-th turn of the loop of a routine, or a step of its own
PreambleStep(idx) ==
    IF idx > CharToIntAt /\ idx < IntToCharAt
    THEN <<"CharToInt", (idx - CharToIntAt - 1) \div 3>>
    ELSE IF idx > IntToCharAt /\ idx < MainBlockAt
    THEN <<"IntToChar", (idx - IntToCharAt - 1) \div 3>>
    ELSE <<"other", idx>>

\* the index in the list of the first command lowered from character k
GroupStart(src, k) == Len(Preamble) + GroupsLen(SubSeq(src, 1, k - 1)) + 1

\* the character of src whose lowering pushed the command at index idx
CharOf(src, idx) ==
    CHOOSE k \in 1..Len(src) :
        idx >= GroupStart(src, k) /\ idx < GroupStart(src, k) + GroupLen(src[k])

\* the nesting of src before character k
SourceDepth(src, k) == Count(src, "[", k - 1) - Count(src, "]", k - 1)

\* the "[" that the "]" at position k of src matches
SourceMatch(src, k) ==
    LET opens == {i \in 1..(k - 1) :
                     src[i] = "[" /\ SourceDepth(src, i) = SourceDepth(src, k) - 1}
    IN  CHOOSE i \in opens : \A i2 \in opens : i >= i2

\* the close at index j of Preamble is an end-if that closes the if of its
\* own table entry
PreamblePairOk(j) ==
    LET i == MatchStart(Preamble, j)
    IN  /\ Preamble[j] = Cmd_EndIf
        /\ IfStyle(Preamble[i])
        /\ PreambleStep(i) = PreambleStep(j)

\* every close of Preamble pairs, and the depth is 0 where the main block
\* begins
PreamblePairs ==
    /\ \A j \in 1..Len(Preamble) : IsClose(Preamble[j]) => PreamblePairOk(j)
    /\ \A j \in 1..Len(Preamble) : PreambleDepths.line[j] >= 0
    /\ PreambleDepths.line[MainBlockAt] = 0
    /\ \A j \in 1..(MainBlockAt - 1) :
          IsOpen(Preamble[j]) => PreambleDepths.line[j] = 0

\* the close at index j of the list cs lowered from src pairs: an end-if
\* closes the if pushed for the same character, an end-while the loop test
\* pushed for the matching "["
BodyPairOk(cs, src, j) ==
    LET i == MatchStart(cs, j)
        k == CharOf(src, j)
    IN  /\ i > Len(Preamble)
        /\ cs[j] = Cmd_EndIf =>
              /\ IfStyle(cs[i])
              /\ src[k] \in {">", ","}
              /\ CharOf(src, i) = k
        /\ cs[j] = Cmd_EndWhile =>
              /\ cs[i] = LoopTest
              /\ src[k] = "]"
              /\ CharOf(src, i) = SourceMatch(src, k)

(***************************************************************************)
(* C11.  When output has succeeded, every close of the list pairs by kind: *)
(* an end-if closes the if-style start-conditional pushed by the same      *)
(* lowering step (a table entry, ">" or ","), an end-while closes the      *)
(* loop test pushed for its matching "[", never the other way round; and   *)
(* the routines of the preamble leave the depth at 0 where the main block  *)
(* begins.                                                                 *)
(***************************************************************************)
C11_BlocksPairByKind ==
    (pc = "rendered" /\ result.ok)
    => /\ SubSeq(cmds, 1, Len(Preamble)) = Preamble
       /\ PreamblePairs
       /\ \A j \in (Len(Preamble) + 1)..Len(cmds) :
             IsClose(cmds[j]) => BodyPairOk(cmds, program, j)

\* "[>]" has rendered: an if nested in a loop, and both closes
C11_Witness ==
    /\ pc = "rendered"
    /\ result.ok
    /\ program = <<"[", ">", "]">>
    /\ cmds[Len(cmds)] = Cmd_EndWhile
    /\ cmds[Len(cmds) - 1] = Cmd_EndIf

====
